---- MODULE Spec2Model ----
(***************************************************************************)
(* The build-session RPC handler of blackmagic: one RPCHandler instance    *)
(* (one websocket session) of src/bin/blackmagic.py and of its slimmed     *)
(* successor src/bin/server.py, together with the collaborators whose      *)
(* state the handler reads and writes (resolver directories, the document  *)
(* store, the firmware table, the worker queue).                           *)
(*                                                                         *)
(* Tornado runs the handlers of a session on one thread: a handler runs    *)
(* without interruption from one `yield` to the next.  Every action below  *)
(* is one such uninterrupted segment.  request.ret(v) sends the terminal   *)
(* reply (eod = 1) and leaves the procedure; request.ret_and_continue(v)   *)
(* sends an intermediate reply (eod = 0) and goes on.                      *)
(***************************************************************************)
EXTENDS Integers, Sequences, FiniteSets, TLC

\* ---------------------------------------------------------------- bounds
\* calls of one session suspended at a yield at the same time
MaxInFlight == 2
\* image ids (uuid4 values) drawn by init over a behaviour
MaxImages == 2
\* jobs put on the worker queue over a behaviour
MaxJobs == 1
\* length of image['users']
MaxUsers == 2
\* length of a packages_list argument of resolve
MaxPkgs == 2
\* number of Inst/Conf lines in the output of apt-get install --no-act
MaxLines == 2
\* the rows of the table of images at most
MaxRows == 2

\* ---------------------------------------------------------- status codes
READY == 10
NOT_INITIALIZED == 11
BUSY == 12
LOCKED == 13
PREPARE_ENV == 14
MARK_ESSENTIAL_PACKAGES_AS_INSTALLED == 15
INSTALL_KEYRING_PACKAGE == 16
UPDATE_INDICES == 17
BUILD_FAILED == 18
EMAIL_NOTIFICATIONS == 19
EMAIL_NOTIFICATIONS_FAILED == 20
OVERLOADED == 21
FIRMWARE_WAS_REMOVED == 21
NOT_FOUND == 22
MAINTENANCE_MODE == 23
UNKNOWN_BUID_TYPE == 24

DEFAULT_ROOT_PASSWORD == "cusdeb"

\* ------------------------------------------------------------ input sets
Debian10 == "Debian 10 \"Buster\" (32-bit)"
Ubuntu64 == "Ubuntu 18.04 \"Bionic Beaver\" (64-bit)"
\* a distro name that is no key of METAS
Fedora == "Fedora 30"

\* two of the six entries of METAS: <<os name, mirror, keyring url>>
METAS ==
  (Debian10 :> << "debian-buster-armhf", "http://deb.debian.org/debian/",
                  "debian-keyring_2019.02.25_all.deb" >>)
  @@ (Ubuntu64 :> << "ubuntu-bionic-arm64", "http://ports.ubuntu.com/ubuntu-ports/",
                     "ubuntu-keyring_2018.02.28_all.deb" >>)

\* firmwares.models knows build types 1 and 2; 3 raises UnknownBuildTypeId
KnownBuildTypes == {1, 2}
\* the arguments of init: <<target_device_name, distro_name, build_type_id>>
InitArgs ==
  { << "Orange Pi Zero", Debian10, 1 >>, << "Raspberry Pi 3 Model B", Ubuntu64, 1 >>,
    << "Orange Pi Zero", Fedora, 1 >>, << "Orange Pi Zero", Debian10, 3 >> }
PackageNames == {"nginx", "libc6"}
Passwords == {"secret"}
Notes == {"note"}

\* os.path.basename(METAS[distro][2]); raises DistroDoesNotExist otherwise
get_keyring_package_name(distro) == METAS[distro][3]
\* METAS[distro][0]; raises DistroDoesNotExist otherwise
get_os_name(distro) == METAS[distro][1]
get_mirror_address(distro) == METAS[distro][2]
DistroDoesNotExist(distro) == distro \notin DOMAIN METAS

is_paid(distro, device) ==
  IF device = "Orange Pi Zero" /\ distro = Debian10 THEN FALSE ELSE TRUE

\* self._os.split('-')
split_os(os) ==
  CASE os = "debian-buster-armhf" -> << "debian", "buster", "armhf" >>
    [] os = "ubuntu-bionic-arm64" -> << "ubuntu", "bionic", "arm64" >>
    [] OTHER -> << "", "", "" >>

\* ---------------------------------------------------------------- state
VARIABLES
  impl,               \* which program runs: "blackmagic" or "server"
  global_lock,        \* self.global_lock
  init_lock,          \* self.init_lock
  build_lock,         \* self.build_lock
  _os,                \* self._os
  _paid,              \* self._paid
  image,              \* self.image
  _distro,            \* self._distro (cached Distro row, by full_name)
  _target_device,     \* self._target_device (cached TargetDevice row)
  email_notifications,\* user.userprofile.email_notifications
  fs,                 \* resolver directories: path |-> what has been put there
  db_images,          \* the images collection of the document store
  firmwares,          \* the Firmware table
  dominion_workspace, \* names of the built image files of the worker
  jobs,               \* the worker queue: every job submitted so far
  calls,              \* the calls of the session suspended at a yield
  ended,              \* the call that ended in the last step, or NoCall
  closed,             \* the connection was closed (destroy has run)
  uuid,               \* number of uuid4 values drawn
  peer,               \* the attributes of a second RPCHandler, of another connection
  ImageModel,         \* the rows of images.models.Image, in the order of their keys
  instance            \* the Image object of src/blackmagic/db.py under construction or use

vars == << impl, global_lock, init_lock, build_lock, _os, _paid, image, _distro,
           _target_device, email_notifications, fs, db_images, firmwares,
           dominion_workspace, jobs, calls, ended, closed, uuid, peer, ImageModel,
           instance >>

\* everything the handlers can change, apart from the bookkeeping of calls
session == << global_lock, init_lock, build_lock, _os, _paid, image, _distro,
              _target_device >>
stores == << email_notifications, fs, db_images, firmwares, dominion_workspace, jobs >>

\* self._arch, self._suite, self._keyring, self._mirror, self._collection_name:
\* init assigns them together with self._os, from the same METAS entry
_arch == split_os(_os)[3]
_suite == split_os(_os)[2]
_collection_name == _os

\* ----------------------------------------------------------------- replies
Reply(eod, tag, num, str, list) ==
  [eod |-> eod, tag |-> tag, num |-> num, str |-> str, list |-> list, ids |-> << >>]
Status(code, eod) == Reply(eod, "status", code, "", << >>)
IdReply(id, eod) == Reply(eod, "id", id, "", << >>)
ListReply(l, eod) == Reply(eod, "list", 0, "", l)
NumReply(k, eod) == Reply(eod, "number", k, "", << >>)
StrReply(s, eod) == Reply(eod, "string", 0, s, << >>)
ImagesReply(names, eod) == [Reply(eod, "images", 0, "", << >>) EXCEPT !.ids = names]
DictReply(keys, eod) == Reply(eod, "dict", 0, "", keys)
BoolReply(b, eod) == Reply(eod, "bool", IF b THEN 1 ELSE 0, "", << >>)

\* -------------------------------------------------------------------- calls
NoCall ==
  [slot |-> 0, op |-> "", pc |-> "", replies |-> << >>, acquired |-> FALSE,
   first |-> FALSE, target_device_name |-> "", distro_name |-> "",
   build_type_id |-> 0, build_id |-> 0, packages_list |-> << >>, result |-> 0,
   ret_code |-> 0, caught |-> FALSE, maintenance_mode |-> FALSE, data |-> << >>]

FreeSlots == (1..MaxInFlight) \ {c.slot : c \in calls}

\* a call as it enters its procedure; first: it has not been suspended yet
NewCall(op) == [NoCall EXCEPT !.op = op, !.pc = "running", !.first = TRUE]

\* request.ret_and_continue(reply)
ret_and_continue(c, reply) == [c EXCEPT !.replies = Append(@, reply)]

\* request.ret(reply): the terminal reply, and the procedure is left
ret(c, reply) == [c EXCEPT !.replies = Append(@, reply), !.pc = "returned"]

\* an exception other than the one of request.ret leaves the procedure
raise(c) == [c EXCEPT !.pc = "raised"]

\* the call c ends as e: it is no longer suspended
Ends(c, e) ==
  /\ ended' = [e EXCEPT !.slot = 0]
  /\ UNCHANGED << peer, ImageModel, instance >>
  /\ calls' = calls \ {c}

\* the call c is suspended at a yield as s
Suspends(c, s) ==
  /\ ended' = NoCall
  /\ UNCHANGED << peer, ImageModel, instance >>
  /\ IF c \in calls
       THEN calls' = (calls \ {c}) \cup {[s EXCEPT !.first = FALSE]}
       ELSE /\ FreeSlots # {}
            /\ calls' = calls \cup
                 {[s EXCEPT !.first = FALSE,
                            !.slot = CHOOSE k \in FreeSlots : \A m \in FreeSlots : k <= m]}

Terminal(c) == IF c.replies = << >> THEN Status(0, 0) ELSE c.replies[Len(c.replies)]
TerminalIs(c, code) ==
  /\ c.pc = "returned"
  /\ Terminal(c) = Status(code, 1)
\* the whole of what the client received is the one terminal status code
OnlyReply(c, code) ==
  /\ c.pc = "returned"
  /\ c.replies = << Status(code, 1) >>

\* only_if_initialized: the procedure runs only if global_lock is down
only_if_initialized(gl) == ~gl

\* ------------------------------------------------------------------- image
\* self.image of src/bin/blackmagic.py (configuration is an empty list there)
\* and of src/bin/server.py (configuration is a copy of defaults.CONFIGURATION,
\* and there is no resolver_env)
CONFIGURATION ==
  { << "host_name", "cusdeb" >>, << "time_zone", "Etc/UTC" >>,
    << "enable_wireless", "False" >>, << "WPA_SSID", "cusdeb" >>, << "WPA_PSK", "" >> }

NoTarget == [distro |-> "", device |-> ""]

InitialImage(i) ==
  [id |-> 0, resolver_env |-> 0, root_password |-> DEFAULT_ROOT_PASSWORD,
   selected_packages |-> << >>, target |-> NoTarget, users |-> << >>,
   configuration |-> IF i = "server" THEN CONFIGURATION ELSE {},
   build_type |-> 0]

\* None, where the value is not an image id (an image id that is None is 0)
None == "<None>"

\* no Image object of src/blackmagic/db.py has been made
NoInstance ==
  [made |-> FALSE, raised |-> "", image_id |-> 0, _image |-> 0, _user_id |-> None,
   _device_name |-> None, _status |-> "UNDEFINED", distro_name |-> None,
   selected_packages |-> << >>, configuration |-> << >>, pieman_user |-> << >>,
   root_password |-> ""]

\* the attributes of the handler whose code runs
Self ==
  [global_lock |-> global_lock, init_lock |-> init_lock, build_lock |-> build_lock,
   _os |-> _os, _paid |-> _paid, image |-> image, _distro |-> _distro,
   _target_device |-> _target_device, calls |-> calls, closed |-> closed]

Init ==
  /\ impl \in {"blackmagic", "server"}
  /\ global_lock = TRUE
  /\ init_lock = FALSE
  /\ build_lock = FALSE
  /\ _os = ""
  /\ _paid = FALSE
  /\ image = InitialImage(impl)
  /\ _distro = ""
  /\ _target_device = ""
  /\ email_notifications = FALSE
  /\ fs = << >>
  /\ db_images = << >>
  /\ firmwares = {}
  /\ dominion_workspace = {}
  /\ jobs = << >>
  /\ calls = {}
  /\ ended = NoCall
  /\ closed = FALSE
  /\ uuid = 0
  /\ peer = Self
  /\ ImageModel = << >>
  /\ instance = NoInstance

\* ------------------------------------------------------------ collaborators
\* shutil.rmtree(path) behind os.path.isdir(path); '' (0) is no directory
\* a removal that takes the directory's siblings in the workspace with it
_remove_resolver_env_and_siblings(dirs, path) ==
  IF path \in DOMAIN dirs THEN [p \in {} |-> {}] ELSE dirs

_remove_resolver_env(dirs, path) ==
  IF path \in DOMAIN dirs THEN [p \in DOMAIN dirs \ {path} |-> dirs[p]] ELSE dirs

\* files put under an existing or new directory
PutFiles(dirs, path, files) ==
  [p \in DOMAIN dirs \cup {path} |->
     IF p = path
       THEN (IF path \in DOMAIN dirs THEN dirs[path] ELSE {}) \cup files
       ELSE dirs[p]]

\* self.db.images.replace_one({'_id': self.image['id']}, self.image, True)
replace_one(db, img) ==
  [k \in DOMAIN db \cup {img.id} |-> IF k = img.id THEN img ELSE db[k]]

\* self._get_distro / self._get_target_device: the row is fetched once and kept
_get_distro(distro_name) == IF _distro = "" THEN distro_name ELSE _distro
_get_target_device(target_device_name) ==
  IF _target_device = "" THEN target_device_name ELSE _target_device

\* Firmware(name=build_id, status=INITIALIZED, pro_only, distro, targetdevice)
Firmware(name, pro_only, distro, targetdevice, build_type) ==
  [name |-> name, status |-> "INITIALIZED", pro_only |-> pro_only,
   distro |-> distro, targetdevice |-> targetdevice, build_type |-> build_type,
   notes |-> ""]

\* --------------------------------------------------------------------- init
\* an init that does not look at init_lock
init_admission_no_init_lock(i, maintenance_mode, il, bl) ==
  IF i = "blackmagic" /\ maintenance_mode THEN MAINTENANCE_MODE
  ELSE IF bl THEN BUSY
  ELSE 0

\* The checks that open init: the status code it is rejected with, or 0.
\* server.py has no maintenance check.
init_admission(i, maintenance_mode, il, bl) ==
  IF i = "blackmagic" /\ maintenance_mode THEN MAINTENANCE_MODE
  ELSE IF il THEN LOCKED
  ELSE IF bl THEN BUSY
  ELSE 0

\* The end of init, from self._get_user() on.  img is self.image as this
\* segment finds it, paid is self._paid.
init_finish(c, img, paid) ==
  /\ _distro' = _get_distro(c.distro_name)
  /\ _target_device' = _get_target_device(c.target_device_name)
  /\ IF c.build_type_id \notin KnownBuildTypes
       THEN \* except UnknownBuildTypeId: request.ret(UNKNOWN_BUID_TYPE)
            /\ Ends(c, ret(c, Status(UNKNOWN_BUID_TYPE, 1)))
            /\ init_lock' = IF impl = "server" THEN TRUE ELSE init_lock
            /\ UNCHANGED << global_lock, firmwares, db_images >>
       ELSE /\ firmwares' = firmwares \cup
                 {Firmware(c.build_id, paid, _distro', _target_device', c.build_type_id)}
            /\ db_images' = IF impl = "blackmagic" THEN replace_one(db_images, img)
                            ELSE db_images
            /\ init_lock' = FALSE
            /\ global_lock' = FALSE
            /\ Ends(c, ret(ret_and_continue(c, IdReply(c.build_id, 0)), Status(READY, 1)))

init(target_device_name, distro_name, build_type_id, maintenance_mode) ==
  /\ ~closed
  /\ UNCHANGED << impl, closed >>
  /\ LET verdict == init_admission(impl, maintenance_mode, init_lock, build_lock)
         c == [NewCall("init") EXCEPT !.target_device_name = target_device_name,
                                      !.distro_name = distro_name,
                                      !.build_type_id = build_type_id,
                                      !.maintenance_mode =
                                         impl = "blackmagic" /\ maintenance_mode]
         a == [c EXCEPT !.acquired = TRUE]
     IN
     IF verdict # 0 THEN
       /\ Ends(c, ret(c, Status(verdict, 1)))
       /\ UNCHANGED << session, stores, uuid >>
     ELSE IF DistroDoesNotExist(distro_name) THEN
       \* get_os_name raises after init_lock and _paid were set
       /\ init_lock' = TRUE
       /\ _paid' = is_paid(distro_name, target_device_name)
       /\ Ends(c, raise(a))
       /\ UNCHANGED << global_lock, build_lock, _os, image, _distro, _target_device,
                       stores, uuid >>
     ELSE
       /\ uuid < MaxImages
       /\ uuid' = uuid + 1
       /\ _paid' = is_paid(distro_name, target_device_name)
       /\ _os' = get_os_name(distro_name)
       /\ image' = [image EXCEPT
                      !.id = uuid',
                      !.resolver_env = IF impl = "blackmagic" THEN uuid' ELSE @,
                      !.target = [distro |-> distro_name, device |-> target_device_name],
                      !.build_type = build_type_id]
       /\ UNCHANGED << build_lock, email_notifications, dominion_workspace, jobs >>
       /\ IF impl = "blackmagic" THEN
            \* up to the first yield: the old resolver_env goes, PREPARE_ENV is sent
            /\ init_lock' = TRUE
            /\ fs' = IF image.resolver_env # 0
                       THEN _remove_resolver_env(fs, image.resolver_env) ELSE fs
            /\ Suspends(c, ret_and_continue([a EXCEPT !.build_id = uuid', !.pc = "sleep_1"],
                                            Status(PREPARE_ENV, 0)))
            /\ UNCHANGED << global_lock, _distro, _target_device, db_images, firmwares >>
          ELSE
            \* server.py: init has no yield
            /\ init_finish([a EXCEPT !.build_id = uuid'], image', _paid')
            /\ UNCHANGED fs

\* for directory in hiera: os.makedirs(resolver_env + directory)
init_makedirs(c, outcome) ==
  /\ c \in calls /\ c.op = "init" /\ c.pc = "sleep_1"
  /\ IF outcome = "ok"
       THEN /\ fs' = PutFiles(fs, c.build_id, {"hiera"})
            /\ Suspends(c, ret_and_continue([c EXCEPT !.pc = "sleep_2"],
                                            Status(MARK_ESSENTIAL_PACKAGES_AS_INSTALLED, 0)))
       ELSE \* OSError, before or after the first directories were made
            /\ fs' = IF outcome = "partial" THEN PutFiles(fs, c.build_id, {}) ELSE fs
            /\ Ends(c, raise(c))
  /\ UNCHANGED << impl, session, email_notifications, db_images, firmwares,
                  dominion_workspace, jobs, closed, uuid >>

\* shutil.copyfile(status_file, ...) and the write of /etc/apt/sources.list
init_status(c, status_file_exists) ==
  /\ c \in calls /\ c.op = "init" /\ c.pc = "sleep_2"
  /\ IF status_file_exists /\ c.build_id \in DOMAIN fs /\ "hiera" \in fs[c.build_id]
       THEN /\ fs' = PutFiles(fs, c.build_id, {"status", "sources.list"})
            /\ Suspends(c, ret_and_continue([c EXCEPT !.pc = "sleep_3"],
                                            Status(INSTALL_KEYRING_PACKAGE, 0)))
       ELSE /\ fs' = fs
            /\ Ends(c, raise(c))
  /\ UNCHANGED << impl, session, email_notifications, db_images, firmwares,
                  dominion_workspace, jobs, closed, uuid >>

\* an init that reports UPDATE_INDICES when it starts dpkg
init_keyring_reports_indices(c) ==
  /\ c \in calls /\ c.op = "init" /\ c.pc = "sleep_3"
  /\ Suspends(c, ret_and_continue([c EXCEPT !.pc = "dpkg"], Status(UPDATE_INDICES, 0)))
  /\ UNCHANGED << impl, session, stores, closed, uuid >>

\* output = yield util.execute_async(['dpkg', '-x', ...]): dpkg is started
init_keyring(c) ==
  /\ c \in calls /\ c.op = "init" /\ c.pc = "sleep_3"
  /\ Suspends(c, [c EXCEPT !.pc = "dpkg"])
  /\ UNCHANGED << impl, session, stores, closed, uuid >>

\* dpkg has exited; UPDATE_INDICES is sent and apt-get update is started
init_dpkg_exit(c, ok) ==
  /\ c \in calls /\ c.op = "init" /\ c.pc = "dpkg"
  /\ IF ok
       THEN /\ fs' = PutFiles(fs, c.build_id, {"keyring"})
            /\ Suspends(c, ret_and_continue([c EXCEPT !.pc = "update"],
                                            Status(UPDATE_INDICES, 0)))
       ELSE /\ fs' = fs
            /\ Ends(c, raise(c))
  /\ UNCHANGED << impl, session, email_notifications, db_images, firmwares,
                  dominion_workspace, jobs, closed, uuid >>

\* yield proc.wait_for_exit() has returned or raised; the rest of init
init_update_exit(c, ok) ==
  /\ c \in calls /\ c.op = "init" /\ c.pc = "update"
  /\ IF ok /\ c.build_id \in DOMAIN fs
       THEN /\ fs' = PutFiles(fs, c.build_id, {"lists"})
            /\ init_finish(c, image, _paid)
       ELSE /\ fs' = fs
            /\ Ends(c, raise(c))
            /\ UNCHANGED << global_lock, init_lock, _distro, _target_device,
                            db_images, firmwares >>
  /\ UNCHANGED << impl, build_lock, _os, _paid, image, email_notifications,
                  dominion_workspace, jobs, closed, uuid >>

\* -------------------------------------------------------------------- build
\* a build that goes on after the except clause, ret_code still 0
build_answer_falls_through(caught, ret_code) ==
  IF ret_code = 0 THEN READY ELSE BUILD_FAILED

\* what build answers once result.get() has returned ret_code or has raised
\* (caught: the except clause ran)
build_answer(caught, ret_code) ==
  IF caught THEN BUILD_FAILED
  ELSE IF ret_code = 0 THEN READY
  ELSE BUILD_FAILED

\* a build that does not look at build_lock
build_admission_unlocked(bl) == TRUE

\* the guard of build: TRUE when the call may take the build lock
build_admission(bl) == ~bl

\* build, up to its first yield.  overloaded: builds_number >= max_builds_number
\* as read from redis; submitted: build.delay did not raise.
build(overloaded, submitted) ==
  /\ ~closed
  /\ UNCHANGED << impl, closed, global_lock, init_lock, _os, _paid, image, _distro,
                  _target_device, email_notifications, fs, db_images, firmwares,
                  dominion_workspace, uuid >>
  /\ LET c == NewCall("build")
         a == [c EXCEPT !.acquired = TRUE]
         o == IF impl = "blackmagic" /\ overloaded
                THEN ret_and_continue(a, Status(OVERLOADED, 0)) ELSE a
     IN
     IF ~only_if_initialized(global_lock) THEN
       /\ Ends(c, ret(c, Status(NOT_INITIALIZED, 1)))
       /\ UNCHANGED << build_lock, jobs >>
     ELSE IF ~build_admission(build_lock) THEN
       /\ Ends(c, ret(c, Status(LOCKED, 1)))
       /\ UNCHANGED << build_lock, jobs >>
     ELSE IF ~submitted THEN
       \* build.delay raises: nothing is queued, the procedure is left
       /\ build_lock' = TRUE
       /\ Ends(c, raise(o))
       /\ UNCHANGED jobs
     ELSE
       /\ Len(jobs) < MaxJobs
       /\ build_lock' = TRUE
       /\ jobs' = Append(jobs, [image |-> image.id, state |-> "PENDING", code |-> 0])
       /\ Suspends(c, [o EXCEPT !.pc = "poll", !.result = Len(jobs')])

WorkerResults == { << "SUCCESS", 0 >>, << "SUCCESS", 1 >>, << "FAILURE", 0 >> }

\* the worker ends a job: its task returned code (SUCCESS) or raised (FAILURE);
\* a task that returned 0 has left the built image and marked the firmware DONE
worker(j, state, code) ==
  /\ j \in DOMAIN jobs
  /\ jobs[j].state = "PENDING"
  /\ jobs' = [jobs EXCEPT ![j] = [@ EXCEPT !.state = state,
                                          !.code = IF state = "SUCCESS" THEN code ELSE 0]]
  /\ IF state = "SUCCESS" /\ code = 0
       THEN /\ dominion_workspace' = dominion_workspace \cup {jobs[j].image}
            /\ firmwares' = {IF f.name = jobs[j].image THEN [f EXCEPT !.status = "DONE"] ELSE f
                              : f \in firmwares}
       ELSE UNCHANGED << dominion_workspace, firmwares >>
  /\ ended' = NoCall
  /\ UNCHANGED << impl, session, email_notifications, fs, db_images, calls, closed, uuid,
                  peer, ImageModel, instance >>

\* build after a sleep: result.ready() raises (polled = FALSE), or the job is
\* ready and the rest of build runs (raised: result.get() raises although the
\* task returned).  A job that is not ready sends build back to sleep.
build_poll(c, polled, raised) ==
  /\ c \in calls /\ c.op = "build" /\ c.pc = "poll"
  /\ UNCHANGED << impl, closed, global_lock, init_lock, _os, _paid, image, _distro,
                  _target_device, email_notifications, db_images, firmwares,
                  dominion_workspace, jobs, uuid >>
  /\ IF ~polled THEN
       /\ Ends(c, raise(c))
       /\ UNCHANGED << build_lock, fs >>
     ELSE
       /\ jobs[c.result].state # "PENDING"
       /\ build_lock' = FALSE
       /\ fs' = IF impl = "blackmagic" THEN _remove_resolver_env(fs, image.resolver_env)
                ELSE fs
       /\ LET caught == jobs[c.result].state = "FAILURE" \/ raised
              ret_code == IF caught THEN 0 ELSE jobs[c.result].code
              r == [c EXCEPT !.caught = caught, !.ret_code = ret_code]
          IN Ends(c, ret(r, Status(build_answer(caught, ret_code), 1)))

\* ------------------------------------------------------------------ resolve
\* the output of apt-get: lines, each an action word and a package name
OutputLines == [marker : {"Inst", "Conf"}, name : PackageNames]

SeqsUpTo(S, k) == UNION {[1..m -> S] : m \in 0..k}

Range(f) == {f[x] : x \in DOMAIN f}

\* self.inst_pattern.findall(str(data)): the names after "Inst ", in order
RECURSIVE findall(_)
findall(data) ==
  IF data = << >> THEN << >>
  ELSE IF Head(data).marker = "Inst"
         THEN << Head(data).name >> \o findall(Tail(data))
         ELSE findall(Tail(data))

\* a resolve that does not subtract the requested names
dependencies_with_requested(packages_to_be_installed, packages_list) ==
  Range(packages_to_be_installed)

\* set(packages_to_be_installed) - set(packages_list)
dependencies(packages_to_be_installed, packages_list) ==
  Range(packages_to_be_installed) \ Range(packages_list)

\* list(s): every element once, in an order Python chooses
Lists(s) == {l \in [1..Cardinality(s) -> s] : Range(l) = s}

resolve(packages_list) ==
  /\ ~closed
  /\ UNCHANGED << impl, closed, global_lock, init_lock, build_lock, _os, _paid, _distro,
                  _target_device, email_notifications, fs, firmwares,
                  dominion_workspace, jobs, uuid >>
  /\ LET c == [NewCall("resolve") EXCEPT !.packages_list = packages_list] IN
     IF ~only_if_initialized(global_lock) THEN
       /\ Ends(c, ret(c, Status(NOT_INITIALIZED, 1)))
       /\ UNCHANGED << image, db_images >>
     ELSE IF impl = "server" THEN
       /\ Ends(c, ret(c, ListReply(<< >>, 1)))
       /\ UNCHANGED << image, db_images >>
     ELSE
       /\ image' = [image EXCEPT !.selected_packages = packages_list]
       /\ db_images' = replace_one(db_images, image')
       /\ Suspends(c, [c EXCEPT !.pc = "apt"])

\* data = yield util.execute_async(command_line) has returned data, or raised
resolve_exit(c, data, ok) ==
  /\ c \in calls /\ c.op = "resolve" /\ c.pc = "apt"
  /\ UNCHANGED << impl, closed, session, stores, uuid >>
  /\ IF ~ok THEN Ends(c, raise(c))
     ELSE \E l \in Lists(dependencies(findall(data), c.packages_list)) :
            Ends(c, ret([c EXCEPT !.data = data], ListReply(l, 1)))

\* ------------------------------------------------------------------ setters
UserDescriptors ==
  {[username |-> "cusdeb", password |-> "secret", uid |-> 1000, gid |-> 1000,
    comment |-> "", homedir |-> "/home/cusdeb", shell |-> "/bin/sh"],
   [username |-> "guest", password |-> "", uid |-> 1001, gid |-> 1001,
    comment |-> "a guest", homedir |-> "/home/guest", shell |-> "/bin/bash"]}

\* the maps a client sends to sync_configuration: a configuration is a set of
\* <<key, value>> pairs with one value for a key
ConfigurationParams ==
  { {}, {<< "host_name", "x" >>}, {<< "HOSTNAME", "cusdebtesthostname" >>} }

Keys(conf) == {kv[1] : kv \in conf}

\* d.update(params)
update(d, params) == {kv \in d : kv[1] \notin Keys(params)} \cup params

\* a procedure that also turns the client away while a lock is held
Procedure_unless_locked(op, reply) ==
  /\ ~closed
  /\ UNCHANGED << impl, closed, uuid >>
  /\ LET c == NewCall(op) IN
     IF ~only_if_initialized(global_lock)
       THEN Ends(c, ret(c, Status(NOT_INITIALIZED, 1)))
       ELSE Ends(c, ret(c, IF init_lock \/ build_lock THEN Status(BUSY, 1) ELSE reply))

\* a procedure without a yield behind only_if_initialized: it answers
\* NOT_INITIALIZED, or runs its body and answers with reply
Procedure(op, reply) ==
  /\ ~closed
  /\ UNCHANGED << impl, closed, uuid >>
  /\ LET c == NewCall(op) IN
     IF ~only_if_initialized(global_lock)
       THEN Ends(c, ret(c, Status(NOT_INITIALIZED, 1)))
       ELSE Ends(c, ret(c, reply))

\* the state a procedure leaves when it is kept from running
Unchanged == UNCHANGED << session, stores >>

\* the live record is written to the document store (blackmagic.py only)
Persist ==
  db_images' = IF impl = "blackmagic" THEN replace_one(db_images, image') ELSE db_images

\* an add_user that puts the descriptor in front of the others
add_user_in_front(user) ==
  /\ Procedure("add_user", Status(READY, 1))
  /\ IF only_if_initialized(global_lock)
       THEN /\ Len(image.users) < MaxUsers
            /\ image' = [image EXCEPT !.users = << user >> \o @]
            /\ Persist
            /\ UNCHANGED << global_lock, init_lock, build_lock, _os, _paid, _distro,
                            _target_device, email_notifications, fs, firmwares,
                            dominion_workspace, jobs >>
       ELSE Unchanged

add_user(user) ==
  /\ Procedure("add_user", Status(READY, 1))
  /\ IF only_if_initialized(global_lock)
       THEN /\ Len(image.users) < MaxUsers
            /\ image' = [image EXCEPT !.users = Append(@, user)]
            /\ Persist
            /\ UNCHANGED << global_lock, init_lock, build_lock, _os, _paid, _distro,
                            _target_device, email_notifications, fs, firmwares,
                            dominion_workspace, jobs >>
       ELSE Unchanged

change_root_password(password) ==
  /\ Procedure("change_root_password", Status(READY, 1))
  /\ IF only_if_initialized(global_lock)
       THEN /\ image' = [image EXCEPT !.root_password = password]
            /\ Persist
            /\ UNCHANGED << global_lock, init_lock, build_lock, _os, _paid, _distro,
                            _target_device, email_notifications, fs, firmwares,
                            dominion_workspace, jobs >>
       ELSE Unchanged

\* blackmagic.py replaces the configuration, server.py updates it
sync_configuration(image_configuration_params) ==
  /\ Procedure("sync_configuration", Status(READY, 1))
  /\ IF only_if_initialized(global_lock)
       THEN /\ image' = [image EXCEPT !.configuration =
                           IF impl = "blackmagic" THEN image_configuration_params
                           ELSE update(@, image_configuration_params)]
            /\ Persist
            /\ UNCHANGED << global_lock, init_lock, build_lock, _os, _paid, _distro,
                            _target_device, email_notifications, fs, firmwares,
                            dominion_workspace, jobs >>
       ELSE Unchanged

\* -------------------------------------------------- email notifications
get_email_notifications ==
  /\ impl = "blackmagic"
  /\ Procedure("get_email_notifications", BoolReply(email_notifications, 1))
  /\ Unchanged

set_email_notifications(op, value) ==
  /\ impl = "blackmagic"
  /\ Procedure(op, Status(EMAIL_NOTIFICATIONS, 1))
  /\ email_notifications' = IF only_if_initialized(global_lock) THEN value
                            ELSE email_notifications
  /\ UNCHANGED << session, fs, db_images, firmwares, dominion_workspace, jobs >>

enable_email_notifications == set_email_notifications("enable_email_notifications", TRUE)

disable_email_notifications == set_email_notifications("disable_email_notifications", FALSE)

\* ------------------------------------------------------------------ catalog
\* the package collection of a distro, the packages and users of its base system
Catalog == << "libc6", "nginx", "zsh" >>
base_packages_list(os) == << "libc6" >>
users_list(os) == << "root" >>
Queries == {"", "nginx", "vim"}
PageNumbers == -1..3
PerPage == 0..2

Min(a, b) == IF a < b THEN a ELSE b

\* collection.find().skip(start_position).limit(per_page); limit(0) is no limit
find_skip_limit(collection, start_position, per_page) ==
  SubSeq(collection, start_position + 1,
         IF per_page = 0 THEN Len(collection)
         ELSE Min(start_position + per_page, Len(collection)))

\* a pagination that counts pages from 0
packages_page_from_zero(page_number, per_page) ==
  LET start_position == IF page_number > 0 THEN page_number * per_page ELSE 0
  IN find_skip_limit(Catalog, start_position, per_page)

packages_page(page_number, per_page) ==
  LET start_position == IF page_number > 0 THEN (page_number - 1) * per_page ELSE 0
  IN find_skip_limit(Catalog, start_position, per_page)

\* self.db.command('text', ...): the documents the query matches
text_search(query) == SelectSeq(Catalog, LAMBDA name : name = query)

get_base_packages_list ==
  /\ Procedure("get_base_packages_list", ListReply(base_packages_list(_os), 1))
  /\ Unchanged

get_packages_list(page_number, per_page) ==
  /\ Procedure("get_packages_list", ListReply(packages_page(page_number, per_page), 1))
  /\ Unchanged

get_default_root_password ==
  /\ Procedure("get_default_root_password", StrReply(DEFAULT_ROOT_PASSWORD, 1))
  /\ Unchanged

get_shells_list ==
  /\ Procedure("get_shells_list",
               ListReply(<< "/bin/sh", "/bin/dash", "/bin/bash", "/bin/rbash" >>, 1))
  /\ Unchanged

\* self.packages_number = self.collection.find().count(), taken by init
get_packages_number ==
  /\ Procedure("get_packages_number", NumReply(Len(Catalog), 1))
  /\ Unchanged

get_users_list ==
  /\ Procedure("get_users_list", ListReply(users_list(_os), 1))
  /\ Unchanged

search(query) ==
  /\ Procedure("search", ListReply(IF query # "" THEN text_search(query) ELSE << >>, 1))
  /\ Unchanged

get_default_configuration ==
  /\ impl = "server"
  /\ Procedure("get_default_configuration", DictReply(<< "host_name", "time_zone",
                 "enable_wireless", "WPA_SSID", "WPA_PSK" >>, 1))
  /\ Unchanged

\* ------------------------------------- procedures without only_if_initialized
\* a procedure that is not behind only_if_initialized and has no yield: it
\* answers with reply, or raises
Undecorated(op, reply, raises) ==
  /\ impl = "blackmagic"
  /\ ~closed
  /\ UNCHANGED << impl, closed, uuid >>
  /\ LET c == NewCall(op) IN Ends(c, IF raises THEN raise(c) ELSE ret(c, reply))

get_target_devices_list ==
  /\ Undecorated("get_target_devices_list",
                 ListReply(<< "Orange Pi Zero", "Raspberry Pi 3 Model B" >>, 1), FALSE)
  /\ Unchanged

RECURSIVE newest_first(_)
newest_first(names) ==
  IF names = {} THEN << >>
  ELSE LET top == CHOOSE k \in names : \A m \in names : m <= k
       IN << top >> \o newest_first(names \ {top})

\* the DONE firmwares of the user, newest first; the procedure raises when the
\* document store has no record for one of them
get_built_images ==
  /\ LET done == {f.name : f \in {g \in firmwares : g.status = "DONE"}} IN
     Undecorated("get_built_images", ImagesReply(newest_first(done), 1),
                 ~(done \subseteq DOMAIN db_images))
  /\ Unchanged

\* the firmware names a client asks about: the recorded ones and one that is not
FirmwareNames == {f.name : f \in firmwares} \cup {0}

delete_firmware(name) ==
  /\ LET found == {f \in firmwares : f.name = name} IN
     /\ Undecorated("delete_firmware",
                    Status(IF found # {} THEN FIRMWARE_WAS_REMOVED ELSE NOT_FOUND, 1),
                    FALSE)
     /\ firmwares' = firmwares \ found
     /\ dominion_workspace' = IF found # {} THEN dominion_workspace \ {name}
                              ELSE dominion_workspace
  /\ UNCHANGED << session, email_notifications, fs, db_images, jobs >>

save_firmware_notes(name, notes) ==
  /\ LET found == {f \in firmwares : f.name = name} IN
     /\ Undecorated("save_firmware_notes",
                    Status(IF found # {} THEN READY ELSE NOT_FOUND, 1), FALSE)
     /\ firmwares' = {IF f.name = name THEN [f EXCEPT !.notes = notes] ELSE f
                       : f \in firmwares}
  /\ UNCHANGED << session, email_notifications, fs, db_images, dominion_workspace, jobs >>

\* --------------------------------------------------------- connection close
destroy ==
  /\ impl = "blackmagic"
  /\ ~closed
  /\ closed' = TRUE
  /\ fs' = _remove_resolver_env(fs, image.resolver_env)
  /\ ended' = NoCall
  /\ UNCHANGED << impl, session, email_notifications, db_images, firmwares,
                  dominion_workspace, jobs, calls, uuid, peer, ImageModel, instance >>

\* ------------------------------------------------------------ two sessions
\* Application makes one RPCHandler for every connection.  The handlers of
\* two connections run on the same thread: the variables above are the
\* attributes of the handler whose code runs, peer holds those of the other,
\* and the loop goes from one to the other between two segments.
switch ==
  /\ peer' = Self
  /\ global_lock' = peer.global_lock
  /\ init_lock' = peer.init_lock
  /\ build_lock' = peer.build_lock
  /\ _os' = peer._os
  /\ _paid' = peer._paid
  /\ image' = peer.image
  /\ _distro' = peer._distro
  /\ _target_device' = peer._target_device
  /\ calls' = peer.calls
  /\ closed' = peer.closed
  /\ ended' = NoCall
  /\ UNCHANGED << impl, stores, uuid, ImageModel, instance >>

\* ----------------------------------- the storage layer, src/blackmagic/db.py
\* the empty string given as an image id
EmptyId == -1

\* the users of django.contrib.auth
Users == {"alice"}

\* Python's truth of a str, of a bool ("True", "False") or of None
truth(v) == v \notin {"", "False", None}

\* key.upper() for the keys of defaults.CONFIGURATION
upper(key) ==
  CASE key = "host_name" -> "HOST_NAME"
    [] key = "time_zone" -> "TIME_ZONE"
    [] key = "enable_wireless" -> "ENABLE_WIRELESS"
    [] OTHER -> key

WIRELESS_CONFIGURATION_KEYS == {"enable_wireless", "WPA_SSID", "WPA_PSK"}

\* dict(defaults.CONFIGURATION)
ConfigurationDict ==
  [key \in Keys(CONFIGURATION) |-> (CHOOSE kv \in CONFIGURATION : kv[1] = key)[2]]

\* props.get(name)
get(props, name) == IF name \in DOMAIN props THEN props[name] ELSE None

\* ','.join(names): a string is the sequence of its characters
RECURSIVE join(_)
join(names) ==
  IF names = << >> THEN << >>
  ELSE IF Len(names) = 1 THEN names[1]
  ELSE names[1] \o << "," >> \o join(Tail(names))

\* string.split(',')
RECURSIVE split(_)
split(string) ==
  IF \E i \in DOMAIN string : string[i] = ","
    THEN LET i == CHOOSE k \in DOMAIN string :
                    string[k] = "," /\ \A m \in 1..(k - 1) : string[m] # ","
         IN << SubSeq(string, 1, i - 1) >> \o split(SubSeq(string, i + 1, Len(string)))
    ELSE << string >>

\* the rows ImageModel.objects.get(image_id=image_id) chooses from
matching(image_id) == {pk \in DOMAIN ImageModel : ImageModel[pk].image_id = image_id}

\* the attributes __init__ assigns before it looks for a stored image
fresh(image_id, user_id, device_name, distro_name) ==
  [NoInstance EXCEPT !.made = TRUE, !.image_id = image_id, !._user_id = user_id,
                     !._device_name = device_name, !.distro_name = distro_name,
                     !.root_password = DEFAULT_ROOT_PASSWORD]

\* the else branch of __init__: the attributes taken from the row found
recovered(o, pk) ==
  LET props == ImageModel[pk].props
      configuration == [key \in DOMAIN ConfigurationDict |->
                          IF truth(get(props, "PIEMAN_" \o upper(key)))
                            THEN props["PIEMAN_" \o upper(key)]
                            ELSE ConfigurationDict[key]]
  IN [o EXCEPT
        !._image = pk,
        !.distro_name = ImageModel[pk].distro_name,
        !.pieman_user = IF truth(get(props, "PIEMAN_USER_NAME"))
                          THEN << [username |-> props["PIEMAN_USER_NAME"],
                                   password |-> get(props, "PIEMAN_USER_PASSWORD")] >>
                          ELSE << >>,
        !.root_password = IF truth(get(props, "PIEMAN_PASSWORD"))
                            THEN props["PIEMAN_PASSWORD"] ELSE @,
        !.selected_packages = IF props["PIEMAN_INCLUDES"] # << >>
                                THEN split(props["PIEMAN_INCLUDES"]) ELSE @,
        !.configuration = configuration]

\* a constructor that does not look for the stored image
Image_without_lookup(image_id, user_id, device_name, distro_name, drawn) ==
  fresh(IF image_id \in {0, EmptyId} THEN drawn ELSE image_id,
        user_id, device_name, distro_name)

\* Image.__init__: what the constructor leaves, with the uuid4 value it draws
\* when image_id is not true
Image(image_id, user_id, device_name, distro_name, drawn) ==
  LET o == fresh(IF image_id \in {0, EmptyId} THEN drawn ELSE image_id,
                 user_id, device_name, distro_name)
  IN IF image_id \in {0, EmptyId} THEN o
     ELSE IF matching(image_id) = {}
       THEN [NoInstance EXCEPT !.raised = "RecoveryImageIsMissing"]
     ELSE IF Cardinality(matching(image_id)) > 1
       THEN [NoInstance EXCEPT !.raised = "MultipleObjectsReturned"]
     ELSE LET pk == CHOOSE k \in matching(image_id) : TRUE IN
          IF "PIEMAN_INCLUDES" \notin DOMAIN ImageModel[pk].props
            THEN [NoInstance EXCEPT !.raised = "KeyError"]
            ELSE recovered(o, pk)

\* the rest of the program is not concerned
Elsewhere ==
  UNCHANGED << impl, session, stores, calls, ended, closed, peer >>

\* Image(image_id, user_id, device_name, distro_name)
Image_init(image_id, user_id, device_name, distro_name) ==
  /\ image_id \in {0, EmptyId} => uuid < MaxImages
  /\ uuid' = IF image_id \in {0, EmptyId} THEN uuid + 1 ELSE uuid
  /\ instance' = Image(image_id, user_id, device_name, distro_name, uuid')
  /\ UNCHANGED ImageModel
  /\ Elsewhere

\* Image.enqueue
enqueue ==
  /\ instance.made
  /\ instance' = [instance EXCEPT !._status = "PENDING"]
  /\ UNCHANGED << ImageModel, uuid >>
  /\ Elsewhere

\* the values a caller gives to the public attributes of an Image: package
\* names (strings, the empty one included), passwords, the user of the image
\* and configurations with the keys of defaults.CONFIGURATION
SelectedPackages ==
  { << >>, << << "nginx" >> >>, << << >> >>, << << "nginx" >>, << "zsh" >> >> }
RootPasswords == {DEFAULT_ROOT_PASSWORD, "", "secret"}
PiemanUsers ==
  { << >>, << [username |-> "pi", password |-> "raspberry"] >>,
    << [username |-> "pi", password |-> ""] >> }
Configurations ==
  { ConfigurationDict,
    [ConfigurationDict EXCEPT !["enable_wireless"] = "True", !["WPA_PSK"] = "psk"],
    [ConfigurationDict EXCEPT !["host_name"] = "pieman"] }

\* image.selected_packages = ..., image.root_password = ...,
\* image.pieman_user = ..., image.configuration = ...
assign(selected_packages, root_password, pieman_user, configuration) ==
  /\ instance.made
  /\ instance' = [instance EXCEPT !.selected_packages = selected_packages,
                                  !.root_password = root_password,
                                  !.pieman_user = pieman_user,
                                  !.configuration = configuration]
  /\ UNCHANGED << ImageModel, uuid >>
  /\ Elsewhere

\* Image._get_configuration_props followed by Image._serialize_props, for
\* a configuration that has the key enable_wireless or is empty
_get_configuration_props(configuration) ==
  LET kept == {key \in DOMAIN configuration :
                 truth(configuration["enable_wireless"])
                 \/ key \notin WIRELESS_CONFIGURATION_KEYS}
  IN [name \in {"PIEMAN_" \o upper(key) : key \in kept} |->
        configuration[CHOOSE key \in kept : "PIEMAN_" \o upper(key) = name]]

\* Image._serialize_props: a bool becomes 'true' or 'false'
_serialize_props(value) ==
  IF value = "True" THEN "true" ELSE IF value = "False" THEN "false" ELSE value

\* the props dump_sync makes
dumped_props(o) ==
  LET configuration_props == _get_configuration_props(o.configuration)
      names == {"PIEMAN_INCLUDES", "PIEMAN_PASSWORD"} \cup DOMAIN configuration_props
                 \cup (IF o.pieman_user # << >>
                         THEN {"PIEMAN_USER_NAME", "PIEMAN_USER_PASSWORD"} ELSE {})
  IN [name \in names |->
        CASE name = "PIEMAN_INCLUDES" -> join(o.selected_packages)
          [] name = "PIEMAN_PASSWORD" -> _serialize_props(o.root_password)
          [] name = "PIEMAN_USER_NAME" -> _serialize_props(o.pieman_user[1].username)
          [] name = "PIEMAN_USER_PASSWORD" -> _serialize_props(o.pieman_user[1].password)
          [] OTHER -> _serialize_props(configuration_props[name])]

\* Image.dump_sync.  unique: the table does not take a second row with the
\* image_id of another (image.save() raises then)
dump_sync(unique) ==
  /\ instance.made
  /\ UNCHANGED uuid
  /\ Elsewhere
  /\ IF DOMAIN instance.configuration # {}
        /\ "enable_wireless" \notin DOMAIN instance.configuration
       THEN \* self.configuration['enable_wireless'] raises KeyError
            /\ instance' = [instance EXCEPT !.raised = "KeyError"]
            /\ UNCHANGED ImageModel
     ELSE IF instance._image # 0
       THEN \* the row found by __init__ is saved with the new status and props
            /\ ImageModel' = [ImageModel EXCEPT ![instance._image] =
                                [@ EXCEPT !.status = instance._status,
                                          !.props = dumped_props(instance)]]
            /\ instance' = [instance EXCEPT !.raised = ""]
     ELSE IF unique /\ matching(instance.image_id) # {}
       THEN /\ instance' = [instance EXCEPT !.raised = "IntegrityError"]
            /\ UNCHANGED ImageModel
     ELSE /\ Len(ImageModel) < MaxRows
          /\ ImageModel' = Append(ImageModel,
               [image_id |-> instance.image_id,
                user |-> IF instance._user_id \in Users THEN instance._user_id ELSE None,
                device_name |-> instance._device_name,
                distro_name |-> instance.distro_name,
                flavour |-> "C",
                status |-> instance._status,
                props |-> dumped_props(instance)])
          /\ instance' = [instance EXCEPT !.raised = ""]

\* ----------------------------------------------------------- specification
\* The life of a session: the procedures with a yield that take a lock, the
\* worker and the close of the connection.  The other procedures read and
\* write neither the locks, the resolver directories nor the worker queue.
Next ==
  \/ \E a \in InitArgs, m \in BOOLEAN : init(a[1], a[2], a[3], m)
  \/ \E c \in calls, o \in {"ok", "none", "partial"} : init_makedirs(c, o)
  \/ \E c \in calls, ok \in BOOLEAN : init_status(c, ok)
  \/ \E c \in calls : init_keyring(c)
  \/ \E c \in calls, ok \in BOOLEAN : init_dpkg_exit(c, ok)
  \/ \E c \in calls, ok \in BOOLEAN : init_update_exit(c, ok)
  \/ \E o \in BOOLEAN, s \in BOOLEAN : build(o, s)
  \/ \E j \in DOMAIN jobs, r \in WorkerResults : worker(j, r[1], r[2])
  \/ \E c \in calls, p \in BOOLEAN, r \in BOOLEAN : build_poll(c, p, r)
  \/ destroy

Spec == Init /\ [][Next]_vars

\* The steps of init: what brings a session to the state where the procedures
\* behind only_if_initialized run their bodies.
Initialization ==
  \/ \E a \in InitArgs, m \in BOOLEAN : init(a[1], a[2], a[3], m)
  \/ \E c \in calls, o \in {"ok", "none", "partial"} : init_makedirs(c, o)
  \/ \E c \in calls, ok \in BOOLEAN : init_status(c, ok)
  \/ \E c \in calls : init_keyring(c)
  \/ \E c \in calls, ok \in BOOLEAN : init_dpkg_exit(c, ok)
  \/ \E c \in calls, ok \in BOOLEAN : init_update_exit(c, ok)

\* The dependency resolution of a session: one initialization, of one device
\* and distro outside maintenance, and resolve.
NextResolve ==
  \/ uuid = 0 /\ init("Orange Pi Zero", Debian10, 1, FALSE)
  \/ \E c \in calls : init_makedirs(c, "ok")
  \/ \E c \in calls : init_status(c, TRUE)
  \/ \E c \in calls : init_keyring(c)
  \/ \E c \in calls : init_dpkg_exit(c, TRUE)
  \/ \E c \in calls : init_update_exit(c, TRUE)
  \/ \E packages_list \in SeqsUpTo(PackageNames, MaxPkgs) : resolve(packages_list)
  \/ \E c \in calls, data \in SeqsUpTo(OutputLines, MaxLines) : resolve_exit(c, data, TRUE)
  \/ \E c \in calls : resolve_exit(c, << >>, FALSE)

SpecResolve == Init /\ [][NextResolve]_vars

\* The same for a client that waits for the reply of a resolve before it
\* sends the next one.
NextDependencies ==
  \/ uuid = 0 /\ init("Orange Pi Zero", Debian10, 1, FALSE)
  \/ \E c \in calls : init_makedirs(c, "ok")
  \/ \E c \in calls : init_status(c, TRUE)
  \/ \E c \in calls : init_keyring(c)
  \/ \E c \in calls : init_dpkg_exit(c, TRUE)
  \/ \E c \in calls : init_update_exit(c, TRUE)
  \/ \E packages_list \in SeqsUpTo(PackageNames, MaxPkgs) :
       /\ \A c \in calls : c.op # "resolve"
       /\ resolve(packages_list)
  \/ \E c \in calls, data \in SeqsUpTo(OutputLines, MaxLines) : resolve_exit(c, data, TRUE)
  \/ \E c \in calls : resolve_exit(c, << >>, FALSE)

SpecDependencies == Init /\ [][NextDependencies]_vars

\* Every remote procedure of a session, each called at any time, around one
\* initialization: init is the one of NextResolve and is accepted once, a
\* build is submitted and polled without an exception.
NextProcedures ==
  \/ uuid = 0 /\ init("Orange Pi Zero", Debian10, 1, FALSE)
  \/ \E c \in calls : init_makedirs(c, "ok")
  \/ \E c \in calls : init_status(c, TRUE)
  \/ \E c \in calls : init_keyring(c)
  \/ \E c \in calls : init_dpkg_exit(c, TRUE)
  \/ \E c \in calls : init_update_exit(c, TRUE)
  \/ build(FALSE, TRUE)
  \/ \E j \in DOMAIN jobs : worker(j, "SUCCESS", 0)
  \/ \E c \in calls : build_poll(c, TRUE, FALSE)
  \/ resolve(<< "nginx" >>)
  \/ \E c \in calls : resolve_exit(c, << [marker |-> "Inst", name |-> "libc6"] >>, TRUE)
  \/ \E user \in UserDescriptors : add_user(user)
  \/ \E password \in Passwords : change_root_password(password)
  \/ \E params \in ConfigurationParams : sync_configuration(params)
  \/ get_email_notifications
  \/ enable_email_notifications
  \/ disable_email_notifications
  \/ get_base_packages_list
  \/ \E page_number \in PageNumbers, per_page \in PerPage :
       get_packages_list(page_number, per_page)
  \/ get_default_root_password
  \/ get_shells_list
  \/ get_packages_number
  \/ get_users_list
  \/ \E query \in Queries : search(query)
  \/ get_default_configuration
  \/ get_target_devices_list
  \/ get_built_images
  \/ \E name \in FirmwareNames : delete_firmware(name)
  \/ \E name \in FirmwareNames, notes \in Notes : save_firmware_notes(name, notes)

SpecProcedures == Init /\ [][NextProcedures]_vars

\* The setters of a session beside its initialization, one re-initialization
\* and its builds: init of one device and distro outside maintenance, a build
\* submitted and polled without an exception.
NextSetters ==
  \/ uuid <= 1 /\ init("Orange Pi Zero", Debian10, 1, FALSE)
  \/ \E c \in calls : init_makedirs(c, "ok")
  \/ \E c \in calls : init_status(c, TRUE)
  \/ \E c \in calls : init_keyring(c)
  \/ \E c \in calls : init_dpkg_exit(c, TRUE)
  \/ \E c \in calls : init_update_exit(c, TRUE)
  \/ build(FALSE, TRUE)
  \/ \E j \in DOMAIN jobs : worker(j, "SUCCESS", 0)
  \/ \E c \in calls : build_poll(c, TRUE, FALSE)
  \/ \E user \in UserDescriptors : add_user(user)
  \/ \E password \in Passwords : change_root_password(password)
  \/ \E params \in ConfigurationParams : sync_configuration(params)

SpecSetters == Init /\ [][NextSetters]_vars

\* Two sessions of one server: each is initialized (one device and distro,
\* outside maintenance), has its root password changed, is built and is
\* closed, the segments of the two interleaved.
NextSessions ==
  \/ init("Orange Pi Zero", Debian10, 1, FALSE)
  \/ \E c \in calls : init_makedirs(c, "ok")
  \/ \E c \in calls : init_status(c, TRUE)
  \/ \E c \in calls : init_keyring(c)
  \/ \E c \in calls : init_dpkg_exit(c, TRUE)
  \/ \E c \in calls : init_update_exit(c, TRUE)
  \/ \E password \in Passwords : change_root_password(password)
  \/ build(FALSE, TRUE)
  \/ \E j \in DOMAIN jobs : worker(j, "SUCCESS", 0)
  \/ \E c \in calls : build_poll(c, TRUE, FALSE)
  \/ destroy
  \/ switch

SpecSessions == Init /\ [][NextSessions]_vars

\* The procedures that read the package catalog and the base system, beside
\* the initializations of one device and distro outside maintenance.
NextCatalog ==
  \/ init("Orange Pi Zero", Debian10, 1, FALSE)
  \/ \E c \in calls : init_makedirs(c, "ok")
  \/ \E c \in calls : init_status(c, TRUE)
  \/ \E c \in calls : init_keyring(c)
  \/ \E c \in calls : init_dpkg_exit(c, TRUE)
  \/ \E c \in calls : init_update_exit(c, TRUE)
  \/ get_base_packages_list
  \/ \E page_number \in PageNumbers, per_page \in PerPage :
       get_packages_list(page_number, per_page)
  \/ get_default_root_password
  \/ get_shells_list
  \/ get_packages_number
  \/ get_users_list
  \/ \E query \in Queries : search(query)

SpecCatalog == Init /\ [][NextCatalog]_vars

\* The configuration of a record: one initialization, the setters, resolve
\* and the procedures that only read.
NextRecord ==
  \/ uuid = 0 /\ init("Orange Pi Zero", Debian10, 1, FALSE)
  \/ \E c \in calls : init_makedirs(c, "ok")
  \/ \E c \in calls : init_status(c, TRUE)
  \/ \E c \in calls : init_keyring(c)
  \/ \E c \in calls : init_dpkg_exit(c, TRUE)
  \/ \E c \in calls : init_update_exit(c, TRUE)
  \/ \E user \in UserDescriptors : add_user(user)
  \/ \E password \in Passwords : change_root_password(password)
  \/ \E params \in ConfigurationParams : sync_configuration(params)
  \/ \E packages_list \in {<< >>, << "nginx" >>} : resolve(packages_list)
  \/ \E c \in calls : resolve_exit(c, << [marker |-> "Inst", name |-> "libc6"] >>, TRUE)
  \/ get_email_notifications
  \/ get_base_packages_list
  \/ get_packages_list(1, 2)
  \/ get_default_root_password
  \/ get_shells_list
  \/ get_packages_number
  \/ get_users_list
  \/ \E query \in Queries : search(query)
  \/ get_default_configuration
  \/ get_target_devices_list
  \/ get_built_images

SpecRecord == Init /\ [][NextRecord]_vars

\* The procedures with a yield under a fair loop: an init or a build that
\* waits is resumed once what it waits for has happened (the sleep is over,
\* the subprocess has exited, with or without a failure), and the worker ends
\* every job it was given.  The connection stays open.
NextLive ==
  \/ \E a \in InitArgs : init(a[1], a[2], a[3], FALSE)
  \/ \E c \in calls, o \in {"ok", "none"} : init_makedirs(c, o)
  \/ \E c \in calls, ok \in BOOLEAN : init_status(c, ok)
  \/ \E c \in calls : init_keyring(c)
  \/ \E c \in calls, ok \in BOOLEAN : init_dpkg_exit(c, ok)
  \/ \E c \in calls, ok \in BOOLEAN : init_update_exit(c, ok)
  \/ build(FALSE, TRUE)
  \/ \E j \in DOMAIN jobs, r \in WorkerResults : worker(j, r[1], r[2])
  \/ \E c \in calls, r \in BOOLEAN : build_poll(c, TRUE, r)

Fairness ==
  /\ WF_vars(\E c \in calls, o \in {"ok", "none"} : init_makedirs(c, o))
  /\ WF_vars(\E c \in calls, ok \in BOOLEAN : init_status(c, ok))
  /\ WF_vars(\E c \in calls : init_keyring(c))
  /\ WF_vars(\E c \in calls, ok \in BOOLEAN : init_dpkg_exit(c, ok))
  /\ WF_vars(\E c \in calls, ok \in BOOLEAN : init_update_exit(c, ok))
  /\ WF_vars(\E j \in DOMAIN jobs, r \in WorkerResults : worker(j, r[1], r[2]))
  /\ WF_vars(\E c \in calls, r \in BOOLEAN : build_poll(c, TRUE, r))

SpecLive == Init /\ [][NextLive]_vars /\ Fairness

\* The storage layer on its own: Image objects are constructed, with an
\* image id or without, queued and dumped.
NextImage ==
  \/ \E image_id \in {0, EmptyId} \cup 1..MaxImages, user_id \in Users \cup {None} :
       Image_init(image_id, user_id, "Orange Pi Zero", Debian10)
  \/ enqueue
  \/ \E unique \in BOOLEAN : dump_sync(unique)

SpecImage == Init /\ [][NextImage]_vars

\* One image through the storage layer: it is made, given its attributes,
\* dumped, and constructed again from its id.
NextRoundTrip ==
  \/ uuid = 0 /\ Image_init(0, "alice", "Orange Pi Zero", Debian10)
  \/ \E image_id \in 1..MaxImages : Image_init(image_id, "alice", "Orange Pi Zero", Debian10)
  \/ \E selected_packages \in SelectedPackages, root_password \in RootPasswords,
        pieman_user \in PiemanUsers, configuration \in Configurations :
       assign(selected_packages, root_password, pieman_user, configuration)
  \/ dump_sync(TRUE)

SpecRoundTrip == Init /\ [][NextRoundTrip]_vars

\* ------------------------------------------------------------------- claims
InFlight(op) == {c \in calls : c.op = op}

\* the call `ended` entered its procedure in the step that ended it
EndedAtOnce(op) == ended.op = op /\ ended.first

\* C2: a build called while an earlier build of the session is still in
\* flight replies LOCKED and puts no job on the queue: the earlier build has
\* its one job, and two builds are never in flight together.
C2_SecondBuildLocked ==
  /\ Cardinality(InFlight("build")) <= 1
  /\ \A d \in InFlight("build") :
       /\ d.result \in DOMAIN jobs
       /\ EndedAtOnce("build") =>
            /\ OnlyReply(ended, LOCKED)
            /\ ended.result = 0
            /\ Cardinality({j \in DOMAIN jobs : j \in {d.result, ended.result}}) = 1

C2_Witness ==
  /\ InFlight("build") # {}
  /\ EndedAtOnce("build")
  /\ OnlyReply(ended, LOCKED)

\* C3: a build called while an init of the session is in flight replies BUSY
\* and puts no job on the queue.  An init that started while a build held the
\* lock was turned away, so a build in flight beside an init entered after it.
C3_BuildDuringInitBusy ==
  InFlight("init") # {} =>
    /\ InFlight("build") = {}
    /\ EndedAtOnce("build") => (OnlyReply(ended, BUSY) /\ ended.result = 0)

\* the part of C3 about the queue alone: no build of the session waits for a
\* job while an init is in flight
C3_NoJobDuringInit == InFlight("init") # {} => InFlight("build") = {}

\* an init call entered its procedure in this step
InitCalled ==
  \/ ended'.op = "init" /\ ended'.first
  \/ \E c \in calls' \ calls : c.op = "init" /\ c.pc = "sleep_1"

RejectedInitFrame == UNCHANGED << global_lock, init_lock, build_lock, image, fs >>

\* C4 as stated: an init called while an init is in flight replies LOCKED, an
\* init called while a build (and no init) is in flight replies BUSY, and
\* neither changes the locks, the image record or the resolver directories.
C4_RejectedInit ==
  [][InitCalled =>
       /\ InFlight("init") # {} => (OnlyReply(ended', LOCKED) /\ RejectedInitFrame)
       /\ (InFlight("build") # {} /\ InFlight("init") = {}) =>
            (OnlyReply(ended', BUSY) /\ RejectedInitFrame)]_vars

\* C4 amended: an init called while init_lock is up replies LOCKED, an init
\* called while build_lock is up and init_lock is not replies BUSY, and in
\* maintenance mode either replies MAINTENANCE_MODE instead; the call changes
\* neither the locks, the image record nor the resolver directories.
C4_RejectedInitOutsideMaintenance ==
  [][InitCalled =>
       /\ init_lock =>
            /\ OnlyReply(ended', IF ended'.maintenance_mode THEN MAINTENANCE_MODE ELSE LOCKED)
            /\ RejectedInitFrame
       /\ (build_lock /\ ~init_lock) =>
            /\ OnlyReply(ended', IF ended'.maintenance_mode THEN MAINTENANCE_MODE ELSE BUSY)
            /\ RejectedInitFrame]_vars

C4_Witness ==
  /\ EndedAtOnce("init")
  /\ InFlight("init") # {}
  /\ InFlight("build") # {}
  /\ OnlyReply(ended, LOCKED)

C4_WitnessBusy ==
  /\ EndedAtOnce("init")
  /\ InFlight("build") # {}
  /\ ~init_lock
  /\ OnlyReply(ended, BUSY)

\* C5: when a build that took the build lock has ended, build_lock is down.
C5_BuildLockReleased ==
  (ended.op = "build" /\ ended.acquired) => ~build_lock

\* an init that took the initializing lock has ended without READY
InitFailed(e) ==
  /\ e.op = "init"
  /\ e.acquired
  /\ ~TerminalIs(e, READY)

\* C6: when an init that took the initializing lock ends in a failure,
\* init_lock is down and the call has not lowered global_lock.
C6_FailedInitReleasesLock ==
  [][InitFailed(ended') => (~init_lock' /\ global_lock' = global_lock)]_vars

\* C7: a build that took the build lock answers READY exactly when
\* result.get() returned 0, and BUILD_FAILED when it returned another code or
\* raised.
C7_ReadyIffResultZero ==
  (ended.op = "build" /\ ended.acquired /\ ended.pc = "returned") =>
    LET job == jobs[ended.result]
        zero == ~ended.caught /\ job.state = "SUCCESS" /\ job.code = 0
    IN /\ TerminalIs(ended, READY) <=> zero
       /\ ~zero => TerminalIs(ended, BUILD_FAILED)

\* result.get() raised although the worker's task had returned 0
C7_Witness ==
  /\ ended.op = "build" /\ ended.acquired /\ ended.pc = "returned"
  /\ ended.caught
  /\ jobs[ended.result].state = "SUCCESS"
  /\ jobs[ended.result].code = 0
  /\ TerminalIs(ended, BUILD_FAILED)

C7_WitnessReady ==
  /\ ended.op = "build" /\ ended.acquired
  /\ TerminalIs(ended, READY)

\* C8: when a build that took the build lock has ended, no directory is left
\* at the session's resolver_env.
C8_ResolverEnvRemoved ==
  (ended.op = "build" /\ ended.acquired) => image.resolver_env \notin DOMAIN fs

\* C9: the list resolve replies holds none of the requested package names
\* and holds no name twice.
C9_ResolveDisjoint ==
  (ended.op = "resolve" /\ ended.pc = "returned" /\ Terminal(ended).tag = "list") =>
    LET result == Terminal(ended).list IN
    /\ Range(result) \cap Range(ended.packages_list) = {}
    /\ \A i, j \in DOMAIN result : result[i] = result[j] => i = j

\* the package manager listed a requested name and a dependency
C9_Witness ==
  /\ ended.op = "resolve" /\ ended.pc = "returned"
  /\ Range(findall(ended.data)) \cap Range(ended.packages_list) # {}
  /\ Terminal(ended).list # << >>

\* C10: at most one resolve of the session waits for its subprocess.
C10_OneResolveInFlight ==
  Cardinality({c \in calls : c.op = "resolve" /\ c.pc = "apt"}) <= 1

\* the procedures that are not kept for initialized sessions
NotBehindInit == {"", "init", "get_built_images", "get_target_devices_list"}

\* C1: on a session whose global_lock is up, a procedure other than init,
\* get_built_images and get_target_devices_list gives NOT_INITIALIZED as its
\* only reply and changes nothing.
C1_NotInitialized ==
  [][(global_lock /\ ended'.op \notin NotBehindInit) =>
       /\ OnlyReply(ended', NOT_INITIALIZED)
       /\ UNCHANGED << session, stores >>]_vars

\* C11: sync_configuration(M) on a ready session gives the keys of M the
\* values of M and leaves every other configuration key as it was: no other
\* key is lost, changed or added.
C11_SyncConfigurationFrame ==
  [][\A M \in ConfigurationParams :
       (~global_lock /\ sync_configuration(M)) =>
         /\ M \subseteq image'.configuration
         /\ \A kv \in image.configuration :
              kv[1] \notin Keys(M) => kv \in image'.configuration
         /\ \A kv \in image'.configuration :
              kv[1] \notin Keys(M) => kv \in image.configuration]_vars

\* C12: an init of blackmagic.py that ends with READY has sent PREPARE_ENV,
\* MARK_ESSENTIAL_PACKAGES_AS_INSTALLED, INSTALL_KEYRING_PACKAGE,
\* UPDATE_INDICES and the id of the new image as intermediate replies, in
\* this order, then READY as the terminal reply, and nothing else.
C12_InitReplyOrder ==
  (impl = "blackmagic" /\ ended.op = "init" /\ TerminalIs(ended, READY)) =>
    ended.replies = << Status(PREPARE_ENV, 0),
                       Status(MARK_ESSENTIAL_PACKAGES_AS_INSTALLED, 0),
                       Status(INSTALL_KEYRING_PACKAGE, 0),
                       Status(UPDATE_INDICES, 0),
                       IdReply(image.id, 0),
                       Status(READY, 1) >>

\* a re-initialization has succeeded
C12_Witness ==
  /\ impl = "blackmagic"
  /\ ended.op = "init"
  /\ TerminalIs(ended, READY)
  /\ image.id = 2

\* C13: a call that has ended has sent exactly one terminal reply, as its
\* last reply, and a call that is still suspended has sent none.
C13_OneTerminalReply ==
  /\ ended.op # "" =>
       /\ ended.replies # << >>
       /\ \A i \in DOMAIN ended.replies :
            ended.replies[i].eod = 1 <=> i = Len(ended.replies)
  /\ \A c \in calls : \A i \in DOMAIN c.replies : c.replies[i].eod = 0

Setters == {"add_user", "change_root_password", "sync_configuration"}

Positions(lo, hi) ==
  [i \in 1..(Min(hi, Len(Catalog)) - lo) |-> Catalog[lo + i]]

\* page_number <= 0 is page 1
Page(page_number) == IF page_number > 0 THEN page_number ELSE 1

PageIs(page_number, per_page) ==
  LET p == Page(page_number)
      reply == Terminal(ended').list
  IN /\ ended'.replies = << ListReply(reply, 1) >>
     /\ reply = Positions((p - 1) * per_page, p * per_page)
     /\ Len(reply) <= per_page
     /\ Len(Catalog) >= p * per_page => Len(reply) = per_page

\* C15 as stated: on a ready session get_packages_list(page_number, per_page)
\* replies the catalog entries at the positions (p-1)*per_page .. p*per_page-1,
\* p being page_number, or 1 when page_number <= 0: at most per_page entries,
\* and per_page of them when the catalog has p*per_page entries.
C15_Pagination ==
  [][\A page_number \in PageNumbers, per_page \in PerPage :
       (~global_lock /\ get_packages_list(page_number, per_page)) =>
         PageIs(page_number, per_page)]_vars

\* C15 amended: the same for per_page >= 1; for per_page = 0 the reply is the
\* whole catalog, whatever the page number.
C15_PaginationOfPositivePerPage ==
  [][\A page_number \in PageNumbers, per_page \in PerPage :
       (~global_lock /\ get_packages_list(page_number, per_page)) =>
         IF per_page >= 1 THEN PageIs(page_number, per_page)
         ELSE ended'.replies = << ListReply(Catalog, 1) >>]_vars

\* a page after the first has been replied, shorter than per_page can be
C15_Witness ==
  /\ ended.op = "get_packages_list"
  /\ Terminal(ended).list = << Catalog[Len(Catalog)] >>

\* C16: once the connection is closed and no call of the session is
\* suspended any more, none of the resolver directories of the session exists.
C16_NoDirectoryAfterClose ==
  (closed /\ calls = {}) => DOMAIN fs = {}

Overloaded(c) ==
  /\ c.op = "build"
  /\ \E i \in DOMAIN c.replies : c.replies[i].tag = "status" /\ c.replies[i].num = OVERLOADED

\* C17: a build that has signalled OVERLOADED has put no job on the worker
\* queue and does not wait for one.
C17_OverloadedRejects ==
  \A c \in calls \cup {ended} : Overloaded(c) => (c.result = 0 /\ c \notin calls)

\* C18: an init that is let in (it draws a new image id) leaves a record
\* with the new id and nothing of the previous record: no users, no selected
\* packages, the default root password and the default configuration; the
\* previous resolver directory is gone.
C18_ReinitDiscardsRecord ==
  [][uuid' # uuid =>
       /\ image'.id # image.id
       /\ image'.users = << >>
       /\ image'.selected_packages = << >>
       /\ image'.root_password = DEFAULT_ROOT_PASSWORD
       /\ image'.configuration = InitialImage(impl).configuration
       /\ image.resolver_env # 0 => image.resolver_env \notin DOMAIN fs']_vars

\* the status of the record of the live image, where it has one
Unfinished ==
  \E f \in firmwares : f.name = image.id /\ f.status \in {"INITIALIZED", "PENDING"}

\* C19: while the session is ready, its record unfinished and resolver_env
\* set, the directory resolver_env names exists; and no directory the session
\* made is left when the connection is closed and the last call has ended.
C19_ResolverEnvLives ==
  /\ (~closed /\ ~global_lock /\ image.resolver_env # 0 /\ Unfinished) =>
       image.resolver_env \in DOMAIN fs
  /\ (closed /\ calls = {}) => \A path \in 1..uuid : path \notin DOMAIN fs

\* the directories a session's handler works in: that of its record and
\* those of its initializations in flight
Directories(handler) ==
  ({handler.image.resolver_env} \cup
   {c.build_id : c \in {d \in handler.calls : d.op = "init"}}) \ {0}

\* C20: with two sessions interleaved, no segment of one session changes
\* the record or the lock flags of the other, nor the resolver_env
\* directory of the other, and two initialized sessions never have the
\* same image id or the same resolver_env path.
C20_SessionsApart ==
  /\ [](/\ (image.id # 0 /\ peer.image.id # 0) => image.id # peer.image.id
        /\ (image.resolver_env # 0 /\ peer.image.resolver_env # 0) =>
             image.resolver_env # peer.image.resolver_env)
  /\ [][\/ switch
        \/ /\ peer'.image = peer.image
           /\ peer'.global_lock = peer.global_lock
           /\ peer'.init_lock = peer.init_lock
           /\ peer'.build_lock = peer.build_lock
           /\ \A path \in Directories(peer) :
                /\ path \in DOMAIN fs <=> path \in DOMAIN fs'
                /\ path \in DOMAIN fs => fs'[path] = fs[path]]_vars

\* both sessions are initialized, the directory of the other exists and the
\* running one has just been closed
C20_Witness ==
  /\ closed /\ ~peer.closed
  /\ image.id # 0 /\ peer.image.id # 0 /\ image.id # peer.image.id
  /\ ~peer.global_lock
  /\ peer.image.resolver_env \in DOMAIN fs
  /\ image.resolver_env \notin DOMAIN fs

\* C21: whenever the session is ready (global_lock is down), the record
\* whose id the session holds has been persisted to the images collection by
\* the init that drew the id; this also during a re-initialization.
C21_ReadyOnlyPersisted ==
  (impl = "blackmagic" /\ ~global_lock) => image.id \in DOMAIN db_images

\* what the stage a progress code reports leaves in the resolver directory
StageFiles(code) ==
  CASE code = PREPARE_ENV -> {"hiera"}
    [] code = MARK_ESSENTIAL_PACKAGES_AS_INSTALLED -> {"status", "sources.list"}
    [] code = INSTALL_KEYRING_PACKAGE -> {"keyring"}
    [] code = UPDATE_INDICES -> {"lists"}
    [] OTHER -> {}

\* the replies the suspended call c had sent before the step
SentBefore(c) ==
  IF \E d \in calls : d.slot = c.slot
    THEN (CHOOSE d \in calls : d.slot = c.slot).replies
    ELSE << >>

\* C22: when an init sends one of its four progress replies, the stage the
\* reply reports has completed: what the stage makes is in the resolver
\* directory of the init.
C22_ProgressAfterStage ==
  [][\A c \in calls' :
       c.op = "init" =>
         \A i \in DOMAIN c.replies :
           i > Len(SentBefore(c)) =>
             /\ c.build_id \in DOMAIN fs'
             /\ StageFiles(c.replies[i].num) \subseteq fs'[c.build_id]]_vars

\* C23: when a build submits a job to the worker queue, the record of the
\* image the job is for has the status PENDING.
C23_PendingBeforeSubmitted ==
  [][Len(jobs') > Len(jobs) =>
       \E f \in firmwares' : /\ f.name = jobs'[Len(jobs')].image
                              /\ f.status = "PENDING"]_vars

\* the remote procedures that only read
Accessors ==
  {"get_email_notifications", "get_base_packages_list", "get_packages_list",
   "get_default_root_password", "get_shells_list", "get_packages_number",
   "get_users_list", "search", "get_default_configuration",
   "get_target_devices_list", "get_built_images"}

\* the step leaves the lock flags and every field of the live record but
\* those of fields as they were
Frame(fields) ==
  /\ DOMAIN image' = DOMAIN image
  /\ \A field \in DOMAIN image \ fields : image'[field] = image[field]
  /\ UNCHANGED << global_lock, init_lock, build_lock >>

\* C24: add_user appends its descriptor at the end of users and changes
\* nothing else of the record; change_root_password changes root_password
\* only, sync_configuration configuration only, resolve selected_packages
\* only; the end of a resolve and every procedure that only reads leave the
\* whole record as it was; none of them changes a lock flag.
C24_SettersFrame ==
  [][/\ \A user \in UserDescriptors :
          add_user(user) =>
            /\ Frame({"users"})
            /\ image'.users \in {image.users, Append(image.users, user)}
            /\ ~global_lock => image'.users = Append(image.users, user)
     /\ \A password \in Passwords :
          change_root_password(password) => Frame({"root_password"})
     /\ \A params \in ConfigurationParams :
          sync_configuration(params) => Frame({"configuration"})
     /\ (\E c \in calls' \ calls : c.op = "resolve") => Frame({"selected_packages"})
     /\ ended'.op \in {"resolve"} \cup Accessors => Frame({})]_vars

\* a second descriptor has just been appended behind a different one
C24_Witness ==
  /\ ended.op = "add_user" /\ OnlyReply(ended, READY)
  /\ Len(image.users) = 2 /\ image.users[1] # image.users[2]
  /\ image.selected_packages # << >>
  /\ image.root_password # DEFAULT_ROOT_PASSWORD

\* C25: after a sync_configuration that was carried out, the keys of the
\* record's configuration are those of the default configuration: no other
\* key has been added and none of them has been removed.
C25_RecognizedKeys ==
  (ended.op = "sync_configuration" /\ OnlyReply(ended, READY)) =>
    Keys(image.configuration) = Keys(CONFIGURATION)

\* the call has been answered with the list of a resolve
Resolved(c) ==
  /\ c.op = "resolve" /\ c.pc = "returned"
  /\ Terminal(c).tag = "list"

\* C26: when a resolve(P) has replied and no other resolve of the session is
\* in flight, selected_packages of the live record is P, and the record
\* stored under the id of the live record has the same selected_packages.
C26_ResolvePersisted ==
  (impl = "blackmagic" /\ Resolved(ended) /\ InFlight("resolve") = {}) =>
    /\ image.selected_packages = ended.packages_list
    /\ image.id \in DOMAIN db_images
    /\ db_images[image.id].selected_packages = image.selected_packages

\* C27: the step in which an init answers UNKNOWN_BUID_TYPE saves no
\* Firmware row and no document, does not make the session ready, and
\* leaves init_lock down, so that the next init is not answered LOCKED.
C27_UnknownBuildType ==
  [][(ended'.op = "init" /\ TerminalIs(ended', UNKNOWN_BUID_TYPE)) =>
       /\ firmwares' = firmwares
       /\ db_images' = db_images
       /\ global_lock' = global_lock
       /\ ~init_lock']_vars

\* C28: a build in flight eventually sends its terminal reply and leaves
\* build_lock down, and an init that has taken init_lock eventually sends
\* its terminal reply and leaves init_lock down.
C28_Completion ==
  /\ (InFlight("build") # {}) ~>
       (ended.op = "build" /\ ended.pc = "returned" /\ ~build_lock)
  /\ (impl = "blackmagic" /\ init_lock) ~>
       (ended.op = "init" /\ ended.pc = "returned" /\ ~init_lock)

\* the constructor has raised RecoveryImageIsMissing, and no stored row has
\* been made or changed
Missing ==
  /\ ~instance'.made
  /\ instance'.raised = "RecoveryImageIsMissing"
  /\ ImageModel' = ImageModel

\* the constructor has made an image of its own: a new id, the status
\* UNDEFINED, no selected packages and the default root password
Fresh ==
  /\ instance'.made
  /\ instance'.raised = ""
  /\ instance'.image_id \notin {0, EmptyId}
  /\ matching(instance'.image_id) = {}
  /\ instance'._status = "UNDEFINED"
  /\ instance'.selected_packages = << >>
  /\ instance'.root_password = DEFAULT_ROOT_PASSWORD
  /\ ImageModel' = ImageModel

\* C29: Image(image_id) for an image_id (anything but None) that no stored
\* row has raises RecoveryImageIsMissing and leaves the table as it was;
\* Image() without an image_id makes an image of its own.
C29_RecoveryImageIsMissing ==
  [][\A image_id \in {0, EmptyId} \cup 1..MaxImages, user_id \in Users \cup {None} :
       Image_init(image_id, user_id, "Orange Pi Zero", Debian10) =>
         IF image_id = 0 THEN Fresh
         ELSE matching(image_id) = {} => Missing]_vars

\* C29, for the image ids that are true: Image(image_id) for a non-empty
\* image_id that no stored row has raises RecoveryImageIsMissing and leaves
\* the table as it was; Image() without an image_id, or with the empty
\* string, makes an image of its own.
C29_RecoveryOfNonEmptyId ==
  [][\A image_id \in {0, EmptyId} \cup 1..MaxImages, user_id \in Users \cup {None} :
       Image_init(image_id, user_id, "Orange Pi Zero", Debian10) =>
         IF image_id \in {0, EmptyId} THEN Fresh
         ELSE matching(image_id) = {} => Missing]_vars

\* an image was asked for by an id that only another stored image has
C29_Witness ==
  /\ instance.raised = "RecoveryImageIsMissing"
  /\ ImageModel # << >>
  /\ uuid = 2

\* C30: the Firmware row of an init that has answered READY has the distro
\* and the target device that were given to this init.
C30_FirmwareOfThisInit ==
  (ended.op = "init" /\ TerminalIs(ended, READY)) =>
    \E f \in firmwares : /\ f.name = ended.build_id
                          /\ f.distro = ended.distro_name
                          /\ f.targetdevice = ended.target_device_name

\* the one stored row of the image is what a dump of the image as it is now
\* leaves
Dumped ==
  /\ instance.made
  /\ Cardinality(matching(instance.image_id)) = 1
  /\ \A pk \in matching(instance.image_id) : ImageModel[pk].props = dumped_props(instance)

\* C31: an Image constructed from the id of an image that has been dumped
\* with a configuration of the default keys has the selected_packages,
\* root_password, pieman_user and configuration the dumped image had.
C31_RoundTrip ==
  [][(/\ Dumped
      /\ instance.configuration \in Configurations
      /\ Image_init(instance.image_id, "alice", "Orange Pi Zero", Debian10)) =>
       /\ instance'.made
       /\ instance'.selected_packages = instance.selected_packages
       /\ instance'.root_password = instance.root_password
       /\ instance'.pieman_user = instance.pieman_user
       /\ instance'.configuration = instance.configuration]_vars

\* C32: a dump of an image that was recovered by its id and not queued
\* since leaves the status of its stored row as it was, and so its user,
\* image_id, device_name and distro_name.
C32_StatusOnlyThroughEnqueue ==
  [][\A unique \in BOOLEAN :
       (/\ instance.made /\ instance._image # 0
        /\ instance._status # "PENDING"
        /\ dump_sync(unique)) =>
         LET before == ImageModel[instance._image]
             after == ImageModel'[instance._image]
         IN /\ after.status = before.status
            /\ after.user = before.user
            /\ after.image_id = before.image_id
            /\ after.device_name = before.device_name
            /\ after.distro_name = before.distro_name]_vars

\* the status codes of src/bin/blackmagic.py, in the order of their definition
StatusCodes ==
  << READY, NOT_INITIALIZED, BUSY, LOCKED, PREPARE_ENV,
     MARK_ESSENTIAL_PACKAGES_AS_INSTALLED, INSTALL_KEYRING_PACKAGE, UPDATE_INDICES,
     BUILD_FAILED, EMAIL_NOTIFICATIONS, EMAIL_NOTIFICATIONS_FAILED, OVERLOADED,
     FIRMWARE_WAS_REMOVED, NOT_FOUND, MAINTENANCE_MODE, UNKNOWN_BUID_TYPE >>

\* the codes that have the value a client receives
Meanings(value) == {i \in DOMAIN StatusCodes : StatusCodes[i] = value}

\* C33: no two status codes have the same value: every status a client
\* has received is the value of one code (in particular OVERLOADED,
\* FIRMWARE_WAS_REMOVED and NOT_FOUND are three values).
C33_DistinctStatusCodes ==
  \A c \in calls \cup {ended} :
    \A n \in DOMAIN c.replies :
      c.replies[n].tag = "status" => Cardinality(Meanings(c.replies[n].num)) = 1

====
